---- MODULE Spec2Model ----
(***************************************************************************)
(* Model of the image-generation relay (src/main.go): four HTTP handlers   *)
(* that decode a JSON body, validate it, build a text prompt, call the     *)
(* upstream generation API once and write either the image or a JSON error.*)
(***************************************************************************)
EXTENDS Integers, Sequences, FiniteSets, TLC

\* ------------------------------------------------------------------ bounds

\* Longest image_base64 string (in characters) the senders of the model use.
MaxB64Len == 4

\* Longest upstream result stream (items yielded before the stream ends).
MaxStream == 2

\* --------------------------------------------------------- program constants

StatusOK == 200
StatusBadRequest == 400
StatusMethodNotAllowed == 405
StatusInternalServerError == 500

modelName == "gemini-3-pro-image-preview"

\* -------------------------------------------------------------- JSON bodies

\* A JSON value of a body field, as the decoder sees it.
Absent == [t |-> "absent"]
JNull == [t |-> "null"]
JStr(s) == [t |-> "string", v |-> s]
JInt(n) == [t |-> "int", v |-> n]
JFloat == [t |-> "float"]

\* Characters of an image_base64 string: "A" stands for a character of the
\* base64 alphabet, "=" is the padding character, "*" a character outside the
\* alphabet, "\n" a line break.
B64Chars == {"A", "=", "*", "\n"}

RECURSIVE SeqsUpTo(_, _)
SeqsUpTo(S, n) ==
    IF n = 0 THEN {<<>>}
    ELSE LET shorter == SeqsUpTo(S, n - 1)
         IN  shorter \cup {Append(s, c) : s \in {t \in shorter : Len(t) = n - 1}, c \in S}

B64Strings == SeqsUpTo(B64Chars, MaxB64Len)

PromptValues == {Absent, JNull, JStr(""), JStr("x"), JStr("y"), JInt(7)}
ImageValues == {Absent, JInt(7)} \cup {JStr(s) : s \in B64Strings}
ScaleValues == {Absent, JInt(2), JInt(3), JInt(4), JStr("2"), JFloat}
DescriptionValues == {Absent, JStr(""), JStr("x"), JStr("y")}

Fields(p, i, s, d) == [prompt |-> p, image_base64 |-> i, scale |-> s, description |-> d]

\* The objects clients send: one per request shape of the API.
ObjectFields ==
    {Fields(p, Absent, Absent, Absent) : p \in PromptValues}
        \cup {Fields(Absent, i, s, Absent) : i \in ImageValues, s \in ScaleValues}
        \cup {Fields(Absent, i, Absent, d) : i \in ImageValues, d \in DescriptionValues}

NoFields == Fields(Absent, Absent, Absent, Absent)

\* A request body: what its first JSON value is ("object", "null", "array"),
\* or that it has none ("empty", "garbage"), and whether more bytes that are
\* not JSON follow the first value.
Bodies ==
    {[kind |-> "object", fields |-> f, trailing |-> tr] : f \in ObjectFields, tr \in BOOLEAN}
        \cup {[kind |-> k, fields |-> NoFields, trailing |-> FALSE] :
                k \in {"null", "array", "empty", "garbage"}}

Paths == {"/text-to-image", "/resize", "/sketch-to-image", "/magic-eraser"}
Methods == {"POST", "GET", "PUT"}

Requests == [path : Paths, method : Methods, body : Bodies]

\* --------------------------------------------------- encoding/json Decoder

\* Decoding one field into a Go string: null and a missing key leave the zero
\* value, a JSON string is stored, anything else is an UnmarshalTypeError.
StringFieldErr(v) == v.t \notin {"absent", "null", "string"}
StringField(v, zero) == IF v.t = "string" THEN v.v ELSE zero

\* Decoding one field into a Go int: only an integral JSON number is stored.
IntFieldErr(v) == v.t \notin {"absent", "null", "int"}
IntField(v) == IF v.t = "int" THEN v.v ELSE 0

\* json.NewDecoder(r.Body).Decode(&req): reads the FIRST JSON value of the
\* body and stops; bytes after it are not looked at. A body with no JSON value
\* is a syntax error (or EOF), a non-object, non-null value a type error, null
\* leaves req at its zero value; fieldErr: a field of the object has a JSON
\* type its Go field cannot take.
DecodeFails(body, fieldErr) ==
    \/ body.kind \in {"empty", "garbage", "array"}
    \/ body.kind = "object" /\ fieldErr

TextFieldsErr(f) == StringFieldErr(f.prompt)
ResizeFieldsErr(f) == StringFieldErr(f.image_base64) \/ IntFieldErr(f.scale)
SketchFieldsErr(f) == StringFieldErr(f.image_base64) \/ StringFieldErr(f.description)
EraserFieldsErr(f) == StringFieldErr(f.image_base64)

DecodeTextToImageRequest(body) ==
    [err |-> DecodeFails(body, TextFieldsErr(body.fields)),
     Prompt |-> StringField(body.fields.prompt, "")]

DecodeResizeRequest(body) ==
    [err |-> DecodeFails(body, ResizeFieldsErr(body.fields)),
     ImageBase64 |-> StringField(body.fields.image_base64, <<>>),
     Scale |-> IntField(body.fields.scale)]

DecodeSketchToImageRequest(body) ==
    [err |-> DecodeFails(body, SketchFieldsErr(body.fields)),
     ImageBase64 |-> StringField(body.fields.image_base64, <<>>),
     Description |-> StringField(body.fields.description, "")]

DecodeMagicEraserRequest(body) ==
    [err |-> DecodeFails(body, EraserFieldsErr(body.fields)),
     ImageBase64 |-> StringField(body.fields.image_base64, <<>>)]

\* ------------------------------------------ base64.StdEncoding.DecodeString

IsNewline(c) == c = "\n" \/ c = "\r"
IsB64Alphabet(c) == c = "A"

RECURSIVE SkipNewlines(_, _)
SkipNewlines(s, i) ==
    IF i <= Len(s) /\ IsNewline(s[i]) THEN SkipNewlines(s, i + 1) ELSE i

\* The decoder's scan: i is the next character, j the number of characters
\* of the current 4-character quantum already read. TRUE when the whole
\* string decodes. Line breaks are skipped everywhere; padding may only end
\* the last quantum ("xx==" or "xxx=") and nothing but line breaks may follow.
RECURSIVE decodeQuantum(_, _, _)
decodeQuantum(s, i, j) ==
    IF i > Len(s) THEN j = 0
    ELSE IF IsB64Alphabet(s[i]) THEN decodeQuantum(s, i + 1, (j + 1) % 4)
    ELSE IF IsNewline(s[i]) THEN decodeQuantum(s, i + 1, j)
    ELSE IF s[i] # "=" THEN FALSE
    ELSE IF j < 2 THEN FALSE
    ELSE IF j = 2
         THEN LET k == SkipNewlines(s, i + 1)
              IN  /\ k <= Len(s)
                  /\ s[k] = "="
                  /\ SkipNewlines(s, k + 1) > Len(s)
    ELSE SkipNewlines(s, i + 1) > Len(s)

Base64DecodeErr(s) == ~decodeQuantum(s, 1, 0)

\* ------------------------------------------------- upstream generation API

\* A part of a candidate's content: text, or an inline-data blob.
TextPart == [inline |-> FALSE, MIMEType |-> "", Data |-> ""]
InlinePart(m, d) == [inline |-> TRUE, MIMEType |-> m, Data |-> d]

\* One item of the result stream: an error, or a response chunk. The request
\* leaves the candidate count at its default of one, so a chunk carries at most
\* one candidate; hasContent is FALSE for a candidate whose Content is nil.
ErrItem(e) == [err |-> e, Candidates |-> <<>>]
Chunk(cands) == [err |-> "", Candidates |-> cands]
Candidate(parts) == [hasContent |-> TRUE, Parts |-> parts]
NilContentCandidate == [hasContent |-> FALSE, Parts |-> <<>>]

UpstreamErrors == {"upstream unavailable", "quota exceeded"}

StreamItems ==
    {ErrItem(e) : e \in UpstreamErrors}
        \cup {Chunk(<<>>),
              Chunk(<<NilContentCandidate>>),
              Chunk(<<Candidate(<<>>)>>),
              Chunk(<<Candidate(<<TextPart>>)>>),
              Chunk(<<Candidate(<<InlinePart("", "img1")>>)>>),
              Chunk(<<Candidate(<<TextPart, InlinePart("image/jpeg", "img2")>>)>>),
              Chunk(<<Candidate(<<InlinePart("image/png", "img2"),
                                  InlinePart("image/jpeg", "img1")>>)>>)}

Streams == SeqsUpTo(StreamItems, MaxStream)

\* What aiClient.Models.GenerateContentStream is called with.
GenerateContentCall(ctx, prompt) ==
    [ctx |-> ctx,
     model |-> modelName,
     contents |-> <<[Role |-> "user", Parts |-> <<[Text |-> prompt]>>]>>,
     config |-> [ResponseModalities |-> <<"IMAGE", "TEXT">>, ImageSize |-> "1K"]]

\* Mutant: an error item is skipped like an empty chunk.
generateSingleImageItemSkipErr(item) ==
    IF \/ item.err # ""
       \/ Len(item.Candidates) = 0
       \/ ~item.Candidates[1].hasContent
       \/ Len(item.Candidates[1].Parts) = 0
    THEN [returns |-> FALSE, img |-> "", mimeType |-> "", err |-> ""]
    ELSE LET parts == item.Candidates[1].Parts
             found == {i \in 1..Len(parts) : parts[i].inline}
         IN  IF found = {} THEN [returns |-> FALSE, img |-> "", mimeType |-> "", err |-> ""]
             ELSE LET i == CHOOSE k \in found : \A m \in found : k <= m
                  IN  [returns |-> TRUE, img |-> parts[i].Data,
                       mimeType |-> IF parts[i].MIMEType = "" THEN "image/png"
                                    ELSE parts[i].MIMEType,
                       err |-> ""]

\* Mutant: the loop over the parts keeps the last inline part, not the first.
RECURSIVE LastInlineIndex(_, _)
LastInlineIndex(parts, i) ==
    IF i = 0 THEN 0
    ELSE IF parts[i].inline THEN i
    ELSE LastInlineIndex(parts, i - 1)

generateSingleImageItemLast(item) ==
    IF item.err # "" THEN [returns |-> TRUE, img |-> "", mimeType |-> "", err |-> item.err]
    ELSE IF \/ Len(item.Candidates) = 0
            \/ ~item.Candidates[1].hasContent
            \/ Len(item.Candidates[1].Parts) = 0
         THEN [returns |-> FALSE, img |-> "", mimeType |-> "", err |-> ""]
    ELSE LET parts == item.Candidates[1].Parts
             i == LastInlineIndex(parts, Len(parts))
         IN  IF i = 0 THEN [returns |-> FALSE, img |-> "", mimeType |-> "", err |-> ""]
             ELSE [returns |-> TRUE, img |-> parts[i].Data,
                   mimeType |-> IF parts[i].MIMEType = "" THEN "image/png"
                                ELSE parts[i].MIMEType,
                   err |-> ""]

\* The loop body of generateSingleImage on one stream item: return the error,
\* skip a chunk with nothing in it, return the first part with inline data.
RECURSIVE FirstInlineIndex(_, _)
FirstInlineIndex(parts, i) ==
    IF i > Len(parts) THEN 0
    ELSE IF parts[i].inline THEN i
    ELSE FirstInlineIndex(parts, i + 1)

Continue == [returns |-> FALSE, img |-> "", mimeType |-> "", err |-> ""]
Return(img, mimeType, err) == [returns |-> TRUE, img |-> img, mimeType |-> mimeType, err |-> err]

generateSingleImageItem(item) ==
    IF item.err # "" THEN Return("", "", item.err)
    ELSE IF \/ Len(item.Candidates) = 0
            \/ ~item.Candidates[1].hasContent
            \/ Len(item.Candidates[1].Parts) = 0
         THEN Continue
    ELSE LET parts == item.Candidates[1].Parts
             i == FirstInlineIndex(parts, 1)
         IN  IF i = 0 THEN Continue
             ELSE Return(parts[i].Data,
                         IF parts[i].MIMEType = "" THEN "image/png" ELSE parts[i].MIMEType,
                         "")

\* Mutant: the function returns no error when the stream held no image.
generateSingleImageEndNoError == Return("", "", "")

\* The statement after the loop: the stream ended and no image was found.
generateSingleImageEnd == Return("", "", "no image returned")

\* -------------------------------------------------------- http.ResponseWriter

\* header: the Content-Type set on the header map; status, contentType: what
\* the first WriteHeader sent; wroteHeader: the number of WriteHeader calls;
\* body: the payloads written, in order.
NewResponseWriter ==
    [header |-> "", status |-> 0, contentType |-> "", wroteHeader |-> 0, body |-> <<>>]

HeaderSet(w, v) == [w EXCEPT !.header = v]

WriteHeader(w, code) ==
    IF w.wroteHeader > 0 THEN [w EXCEPT !.wroteHeader = @ + 1]
    ELSE [w EXCEPT !.status = code, !.contentType = w.header, !.wroteHeader = 1]

Write(w, payload) ==
    LET w1 == IF w.wroteHeader = 0 THEN WriteHeader(w, StatusOK) ELSE w
    IN  [w1 EXCEPT !.body = Append(@, payload)]

BytesPayload(img) == [kind |-> "bytes", bytes |-> img, error |-> ""]

\* json.NewEncoder(w).Encode(map[string]string{"error": message})
JSONErrorPayload(message) == [kind |-> "json", bytes |-> "", error |-> message]

\* Mutant: the Content-Type is always "image/png", whatever the upstream declared.
writeImagePNG(w, img, mimeType) ==
    Write(WriteHeader(HeaderSet(w, "image/png"), StatusOK), BytesPayload(img))

writeImage(w, img, mimeType) ==
    LET m == IF mimeType = "" THEN "image/png" ELSE mimeType
    IN  Write(WriteHeader(HeaderSet(w, m), StatusOK), BytesPayload(img))

writeError(w, message, statusCode) ==
    Write(WriteHeader(HeaderSet(w, "application/json"), statusCode),
          JSONErrorPayload(message))

\* ------------------------------------------------------------------ handlers

\* strconv of a non-negative int, as fmt's %d prints it.
Digits == <<"0", "1", "2", "3", "4", "5", "6", "7", "8", "9">>
RECURSIVE Itoa(_)
Itoa(n) == IF n < 10 THEN Digits[n + 1] ELSE Itoa(n \div 10) \o Digits[(n % 10) + 1]

\* Mutant: the check lets every method but GET through.
MethodIsNotGet(method) == method # "GET"

MethodIsPost(method) == method = "POST"

\* What a handler has done when it returns or reaches the upstream call:
\* the response writer, whether r.Body was read, and the prompt it calls
\* generateSingleImage with (calls = FALSE when it returned before that).
Reject(w, read, message, statusCode) ==
    [w |-> writeError(w, message, statusCode), bodyRead |-> read,
     calls |-> FALSE, prompt |-> ""]
\* Mutant: the status line and header go out before the upstream is called.
GenerateHeaderFirst(w, prompt) ==
    [w |-> WriteHeader(HeaderSet(w, "image/png"), StatusOK), bodyRead |-> TRUE,
     calls |-> TRUE, prompt |-> prompt]

Generate(w, prompt) ==
    [w |-> w, bodyRead |-> TRUE, calls |-> TRUE, prompt |-> prompt]

\* Mutant: the image is put into the text sent upstream.
RECURSIVE JoinChars(_)
JoinChars(cs) == IF cs = <<>> THEN "" ELSE Head(cs) \o JoinChars(Tail(cs))

ResizePromptWithImage(req) ==
    "Resize this image by x" \o Itoa(req.Scale) \o " preserving details. "
        \o JoinChars(req.ImageBase64)

TextToImagePrompt(req) == req.Prompt
ResizePrompt(req) ==
    "Resize this image by x" \o Itoa(req.Scale) \o " preserving details."
SketchPrompt(req) == "Interpret this sketch as '" \o req.Description \o "'."
EraserPrompt(req) == "Remove the pink masked area and reconstruct the background."

handleTextToImageStart(w, q) ==
    IF ~MethodIsPost(q.method) THEN Reject(w, FALSE, "POST only", StatusMethodNotAllowed)
    ELSE LET req == DecodeTextToImageRequest(q.body)
         IN  IF req.err THEN Reject(w, TRUE, "invalid body", StatusBadRequest)
             ELSE IF req.Prompt = "" THEN Reject(w, TRUE, "missing prompt", StatusBadRequest)
             ELSE Generate(w, TextToImagePrompt(req))

\* Mutant: the scale is checked against the range 2..4.
ScaleOutOfRange(scale) == scale < 2 \/ scale > 4

ScaleRejected(scale) == scale # 2 /\ scale # 4

handleResizeStart(w, q) ==
    IF ~MethodIsPost(q.method) THEN Reject(w, FALSE, "POST only", StatusMethodNotAllowed)
    ELSE LET req == DecodeResizeRequest(q.body)
         IN  IF req.err THEN Reject(w, TRUE, "invalid body", StatusBadRequest)
             ELSE IF Len(req.ImageBase64) = 0
                  THEN Reject(w, TRUE, "missing image", StatusBadRequest)
             ELSE IF ScaleRejected(req.Scale)
                  THEN Reject(w, TRUE, "scale must be 2 or 4", StatusBadRequest)
             ELSE IF Base64DecodeErr(req.ImageBase64)
                  THEN Reject(w, TRUE, "invalid base64", StatusBadRequest)
             ELSE Generate(w, ResizePrompt(req))

handleSketchToImageStart(w, q) ==
    IF ~MethodIsPost(q.method) THEN Reject(w, FALSE, "POST only", StatusMethodNotAllowed)
    ELSE LET req == DecodeSketchToImageRequest(q.body)
         IN  IF req.err THEN Reject(w, TRUE, "invalid body", StatusBadRequest)
             ELSE IF Len(req.ImageBase64) = 0 \/ req.Description = ""
                  THEN Reject(w, TRUE, "missing fields", StatusBadRequest)
             ELSE IF Base64DecodeErr(req.ImageBase64)
                  THEN Reject(w, TRUE, "invalid base64", StatusBadRequest)
             ELSE Generate(w, SketchPrompt(req))

handleMagicEraserStart(w, q) ==
    IF ~MethodIsPost(q.method) THEN Reject(w, FALSE, "POST only", StatusMethodNotAllowed)
    ELSE LET req == DecodeMagicEraserRequest(q.body)
         IN  IF req.err THEN Reject(w, TRUE, "invalid body", StatusBadRequest)
             ELSE IF Len(req.ImageBase64) = 0
                  THEN Reject(w, TRUE, "missing image", StatusBadRequest)
             ELSE IF Base64DecodeErr(req.ImageBase64)
                  THEN Reject(w, TRUE, "invalid base64", StatusBadRequest)
             ELSE Generate(w, EraserPrompt(req))

\* The words each handler puts before the upstream error: in the log line and
\* in the message of the 500 response.
LogPrefix(path) ==
    CASE path = "/text-to-image" -> "Error generating image: "
      [] path = "/resize" -> "Error resizing image: "
      [] path = "/sketch-to-image" -> "Error converting sketch to image: "
      [] path = "/magic-eraser" -> "Error with magic eraser: "

ErrorPrefix(path) ==
    CASE path = "/text-to-image" -> "generation error: "
      [] path = "/resize" -> "resize error: "
      [] path = "/sketch-to-image" -> "sketch error: "
      [] path = "/magic-eraser" -> "eraser error: "

\* fmt.Sprintf("<prefix>: %v", err)
UpstreamErrorMessage(path, err) == ErrorPrefix(path) \o err

\* Mutant: the return after writeError is missing, so the image is written too.
HandlerFinishNoReturn(w, path, result) ==
    IF result.err # ""
    THEN [w |-> writeImage(writeError(w, UpstreamErrorMessage(path, result.err),
                                      StatusInternalServerError),
                           result.img, result.mimeType),
          log |-> <<LogPrefix(path) \o result.err>>]
    ELSE [w |-> writeImage(w, result.img, result.mimeType), log |-> <<>>]

\* The handler after generateSingleImage returned.
HandlerFinish(w, path, result) ==
    IF result.err # ""
    THEN [w |-> writeError(w, UpstreamErrorMessage(path, result.err),
                           StatusInternalServerError),
          log |-> <<LogPrefix(path) \o result.err>>]
    ELSE [w |-> writeImage(w, result.img, result.mimeType), log |-> <<>>]

\* -------------------------------------------------------------------- state

VARIABLES
    server,     \* the process: "starting" (in main), "listening", "exited"
    aiClient,   \* the global client handle main() assigns before listening
    pc,         \* per request: "idle", "streaming" (inside generateSingleImage), "done"
    request,    \* per request: what the client sent
    bodyRead,   \* per request: whether the handler read r.Body
    w,          \* per request: its http.ResponseWriter
    calls,      \* per request: the upstream calls made with its context
    stream,     \* per request: the result stream the upstream answers with
    pos,        \* per request: the number of stream items consumed
    logs        \* per request: the lines its handler logged

vars == <<server, aiClient, pc, request, bodyRead, w, calls, stream, pos, logs>>

NoRequest == [path |-> "", method |-> "", body |-> [kind |-> "empty", fields |-> NoFields,
                                                    trailing |-> FALSE]]

\* The server after main() has created the client and registered the
\* handlers, with `ids` the requests it is going to receive.
NoRequestYet(ids) ==
    /\ pc = [r \in ids |-> "idle"]
    /\ request = [r \in ids |-> NoRequest]
    /\ bodyRead = [r \in ids |-> FALSE]
    /\ w = [r \in ids |-> NewResponseWriter]
    /\ calls = [r \in ids |-> <<>>]
    /\ stream = [r \in ids |-> <<>>]
    /\ pos = [r \in ids |-> 0]
    /\ logs = [r \in ids |-> <<>>]

InitFor(ids) ==
    /\ server = "listening"
    /\ aiClient = "client"
    /\ NoRequestYet(ids)

\* ctx := r.Context(): the context of request r, the one handed to
\* generateSingleImage and from there to GenerateContentStream.
RequestContext(r) == r

\* Mutant: the call is made a second time (a retry).
InvokeUpstreamTwice(made, ctx, prompt) ==
    Append(Append(made, GenerateContentCall(ctx, prompt)), GenerateContentCall(ctx, prompt))

\* aiClient.Models.GenerateContentStream(ctx, modelName, contents, config):
\* one call, recorded with the context of the request.
InvokeUpstream(made, ctx, prompt) == Append(made, GenerateContentCall(ctx, prompt))

\* A handler from its entry to its return or to the upstream call. The
\* upstream's answer s is fixed when the call is made and read item by item.
Serve(r, q, out, answers) ==
    /\ server = "listening"
    /\ pc[r] = "idle"
    /\ request' = [request EXCEPT ![r] = q]
    /\ bodyRead' = [bodyRead EXCEPT ![r] = out.bodyRead]
    /\ w' = [w EXCEPT ![r] = out.w]
    /\ IF out.calls
       THEN /\ \E s \in answers : stream' = [stream EXCEPT ![r] = s]
            /\ calls' = [calls EXCEPT ![r] = InvokeUpstream(@, RequestContext(r), out.prompt)]
            /\ pc' = [pc EXCEPT ![r] = "streaming"]
       ELSE /\ pc' = [pc EXCEPT ![r] = "done"]
            /\ UNCHANGED <<stream, calls>>
    /\ UNCHANGED <<server, aiClient, pos, logs>>

handleTextToImage(r, q, answers) ==
    /\ q.path = "/text-to-image"
    /\ Serve(r, q, handleTextToImageStart(w[r], q), answers)

handleResize(r, q, answers) ==
    /\ q.path = "/resize"
    /\ Serve(r, q, handleResizeStart(w[r], q), answers)

handleSketchToImage(r, q, answers) ==
    /\ q.path = "/sketch-to-image"
    /\ Serve(r, q, handleSketchToImageStart(w[r], q), answers)

handleMagicEraser(r, q, answers) ==
    /\ q.path = "/magic-eraser"
    /\ Serve(r, q, handleMagicEraserStart(w[r], q), answers)

\* generateSingleImage returned: the handler logs and writes its response.
\* A handler that would keep the path being served in a package-level
\* variable, overwritten by every request that arrives, and read it back when
\* it answers.
LastArrived == CHOOSE x \in DOMAIN pc : pc[x] # "idle" /\ \A y \in DOMAIN pc : pc[y] # "idle" => y <= x
FinishShared(r, result) ==
    LET out == HandlerFinish(w[r], request[LastArrived].path, result)
    IN  /\ w' = [w EXCEPT ![r] = out.w]
        /\ logs' = [logs EXCEPT ![r] = @ \o out.log]
        /\ pc' = [pc EXCEPT ![r] = "done"]

Finish(r, result) ==
    LET out == HandlerFinish(w[r], request[r].path, result)
    IN  /\ w' = [w EXCEPT ![r] = out.w]
        /\ logs' = [logs EXCEPT ![r] = @ \o out.log]
        /\ pc' = [pc EXCEPT ![r] = "done"]

\* One iteration of the range loop of generateSingleImage.
generateSingleImageIter(r) ==
    /\ pc[r] = "streaming"
    /\ pos[r] < Len(stream[r])
    /\ pos' = [pos EXCEPT ![r] = @ + 1]
    /\ LET result == generateSingleImageItem(stream[r][pos[r] + 1])
       IN  IF result.returns THEN Finish(r, result)
           ELSE UNCHANGED <<w, logs, pc>>
    /\ UNCHANGED <<server, aiClient, request, bodyRead, calls, stream>>

\* The stream is exhausted: the loop ends and the function returns its error.
generateSingleImageExhausted(r) ==
    /\ pc[r] = "streaming"
    /\ pos[r] = Len(stream[r])
    /\ Finish(r, generateSingleImageEnd)
    /\ UNCHANGED <<server, aiClient, request, bodyRead, calls, stream, pos>>

\* main(): check the API key, build the client, assign the global, register
\* the handlers and listen. Each log.Fatal ends the process.
EnvKeys == {"", "key"}
main(apiKey, clientErr, listenErr) ==
    /\ server = "starting"
    /\ aiClient' = IF apiKey = "" \/ clientErr THEN aiClient ELSE "client"
    /\ server' = IF apiKey = "" \/ clientErr \/ listenErr THEN "exited" ELSE "listening"
    /\ UNCHANGED <<pc, request, bodyRead, w, calls, stream, pos, logs>>

\* One request at a time, any request, any upstream answer.
Init == InitFor({1})

\* The requests the mux hands to the handler registered for `path`.
RequestsTo(all, path) == {q \in all : q.path = path}

Next ==
    \/ \E r \in DOMAIN pc :
        pc[r] = "idle" /\ \E q \in RequestsTo(Requests, "/text-to-image") :
            handleTextToImage(r, q, Streams)
    \/ \E r \in DOMAIN pc :
        pc[r] = "idle" /\ \E q \in RequestsTo(Requests, "/resize") :
            handleResize(r, q, Streams)
    \/ \E r \in DOMAIN pc :
        pc[r] = "idle" /\ \E q \in RequestsTo(Requests, "/sketch-to-image") :
            handleSketchToImage(r, q, Streams)
    \/ \E r \in DOMAIN pc :
        pc[r] = "idle" /\ \E q \in RequestsTo(Requests, "/magic-eraser") :
            handleMagicEraser(r, q, Streams)
    \/ \E r \in DOMAIN pc : generateSingleImageIter(r)
    \/ \E r \in DOMAIN pc : generateSingleImageExhausted(r)

Spec == Init /\ [][Next]_vars

\* ------------------------------------------------ what the claims speak of

Ids == DOMAIN pc
Done(r) == pc[r] = "done"
IsPost(r) == request[r].method = "POST"

\* A field that is missing or empty, as a client sees its own body.
FieldMissing(v) == v.t \in {"absent", "null"} \/ (v.t = "string" /\ Len(v.v) = 0)
FieldGiven(v) == v.t = "string" /\ Len(v.v) > 0

\* The body is one JSON document and nothing else.
ParseableJSON(body) == body.kind \in {"object", "null", "array"} /\ ~body.trailing

\* Standard base64 (RFC 4648, section 4): only characters of the alphabet, in
\* groups of four, the last group padded with "=" or "==".
StandardBase64(s) ==
    /\ Len(s) % 4 = 0
    /\ \A i \in 1..Len(s) :
        \/ s[i] = "A"
        \/ s[i] = "=" /\ i = Len(s) /\ i > 3
        \/ s[i] = "=" /\ i = Len(s) - 1 /\ s[Len(s)] = "=" /\ i > 2

ImagePaths == {"/resize", "/sketch-to-image", "/magic-eraser"}

\* The upstream's answer as a client of the API reads it: every part of every
\* chunk in stream order, up to the first error.
RECURSIVE CandidateParts(_)
CandidateParts(cands) ==
    IF cands = <<>> THEN <<>>
    ELSE (IF Head(cands).hasContent THEN Head(cands).Parts ELSE <<>>)
             \o CandidateParts(Tail(cands))

RECURSIVE PartsBeforeError(_)
PartsBeforeError(s) ==
    IF s = <<>> \/ Head(s).err # "" THEN <<>>
    ELSE CandidateParts(Head(s).Candidates) \o PartsBeforeError(Tail(s))

ImagesReturned(s) == SelectSeq(PartsBeforeError(s), LAMBDA p : p.inline)
ReturnsImage(s) == ImagesReturned(s) # <<>>
FirstImage(s) == Head(ImagesReturned(s))

\* The upstream completed without any error and without any image.
ReturnsNothing(s) == ~ReturnsImage(s) /\ \A i \in 1..Len(s) : s[i].err = ""
\* The upstream call failed: an error, or no image, ended it.
UpstreamFailed(s) == ~ReturnsImage(s)

ImageContentTypes == {"image/png", "image/jpeg", "image/webp", "image/gif"}

IsImageResponse(x) ==
    /\ x.status = 200
    /\ x.wroteHeader = 1
    /\ x.contentType \in ImageContentTypes
    /\ Len(x.body) = 1
    /\ x.body[1].kind = "bytes"

IsErrorResponse(x) ==
    /\ x.status \notin 200..299
    /\ x.status >= 400
    /\ x.wroteHeader = 1
    /\ x.contentType = "application/json"
    /\ Len(x.body) = 1
    /\ x.body[1].kind = "json"

HasImageBytes(x) == \E i \in 1..Len(x.body) : x.body[i].kind = "bytes"

\* --------------------------------------------------------------------- claims

\* C1: every completed response is exactly one of: status 200 with an image
\* Content-Type and the image bytes, or a non-2xx status with a JSON
\* {"error": message} body; a handler never returns without a response and
\* never writes the status line or a body twice.
C1_ImageOrError ==
    \A r \in Ids :
        /\ Done(r) => (IsImageResponse(w[r]) /\ ~IsErrorResponse(w[r]))
                          \/ (IsErrorResponse(w[r]) /\ ~IsImageResponse(w[r]))
        /\ w[r].wroteHeader <= 1
        /\ Len(w[r].body) <= 1

C1_Witness ==
    \E r \in Ids :
        /\ Done(r)
        /\ request[r].path = "/sketch-to-image"
        /\ IsImageResponse(w[r])
        /\ pos[r] = 2

\* C2: a request whose method is not POST is answered 405, its body is never
\* read and the upstream is never called, whatever the body holds.
C2_NonPostIs405 ==
    \A r \in Ids :
        (pc[r] # "idle" /\ ~IsPost(r)) =>
            /\ Done(r)
            /\ w[r].status = 405
            /\ ~bodyRead[r]
            /\ calls[r] = <<>>

C2_Witness ==
    \E r \in Ids :
        /\ Done(r)
        /\ request[r].method = "PUT"
        /\ request[r].path = "/text-to-image"
        /\ request[r].body.kind = "object"
        /\ request[r].body.fields.prompt = JStr("x")
        /\ w[r].status = 405

\* The ways a POST request is malformed, as the API's documentation lists them.
ImageMalformed(f) ==
    \/ FieldMissing(f.image_base64)
    \/ f.image_base64.t = "string" /\ ~StandardBase64(f.image_base64.v)

Malformed(q) ==
    \/ ~ParseableJSON(q.body)
    \/ q.path = "/text-to-image" /\ FieldMissing(q.body.fields.prompt)
    \/ q.path \in ImagePaths /\ ImageMalformed(q.body.fields)
    \/ q.path = "/sketch-to-image" /\ FieldMissing(q.body.fields.description)

\* A request as the data model of the API describes it.
WellFormed(q) ==
    LET f == q.body.fields
        imageGiven == FieldGiven(f.image_base64) /\ StandardBase64(f.image_base64.v)
    IN  /\ ParseableJSON(q.body)
        /\ q.body.kind = "object"
        /\ CASE q.path = "/text-to-image" -> FieldGiven(f.prompt)
             [] q.path = "/resize" -> imageGiven /\ f.scale \in {JInt(2), JInt(4)}
             [] q.path = "/sketch-to-image" -> imageGiven /\ FieldGiven(f.description)
             [] q.path = "/magic-eraser" -> imageGiven

\* C3: every malformed POST request (body not parseable as JSON, empty or
\* missing required field, image_base64 that is not standard base64) is
\* answered 400 and never reaches the upstream.
C3_MalformedIs400 ==
    \A r \in Ids :
        (pc[r] # "idle" /\ IsPost(r) /\ Malformed(request[r])) =>
            /\ Done(r)
            /\ w[r].status = 400
            /\ calls[r] = <<>>

\* C4: on POST /resize a scale other than 2 or 4 (a missing one included) is
\* answered 400 whatever image_base64 is; with scale 2 or 4, a valid image and
\* an upstream that returns an image the response is 200 with that image.
C4_ResizeScale ==
    \A r \in Ids :
        (IsPost(r) /\ request[r].path = "/resize") =>
            LET f == request[r].body.fields
            IN  /\ (pc[r] # "idle" /\ f.scale \notin {JInt(2), JInt(4)}) =>
                       (Done(r) /\ w[r].status = 400 /\ calls[r] = <<>>)
                /\ (/\ Done(r)
                    /\ request[r].body.kind = "object"
                    /\ f.scale \in {JInt(2), JInt(4)}
                    /\ FieldGiven(f.image_base64)
                    /\ StandardBase64(f.image_base64.v)
                    /\ ReturnsImage(stream[r])) =>
                       /\ IsImageResponse(w[r])
                       /\ w[r].body[1].bytes = FirstImage(stream[r]).Data

C4_Witness ==
    \E r \in Ids :
        /\ Done(r)
        /\ IsPost(r)
        /\ request[r].path = "/resize"
        /\ request[r].body.fields.scale = JInt(4)
        /\ request[r].body.fields.image_base64 = JStr(<<"A", "A", "=", "=">>)
        /\ ReturnsImage(stream[r])
        /\ w[r].status = 200

\* C5: on POST /text-to-image with a non-empty prompt and an upstream that
\* returns an image, the response is 200, its body the bytes of the first image
\* payload returned and its Content-Type the MIME type declared for that
\* payload, "image/png" when none is declared; an empty prompt is answered 400.
C5_TextToImage ==
    \A r \in Ids :
        (Done(r) /\ IsPost(r) /\ request[r].path = "/text-to-image"
                 /\ request[r].body.kind = "object") =>
            LET prompt == request[r].body.fields.prompt
                first == FirstImage(stream[r])
            IN  /\ (FieldGiven(prompt) /\ ReturnsImage(stream[r])) =>
                       /\ w[r].status = 200
                       /\ w[r].body = <<BytesPayload(first.Data)>>
                       /\ w[r].contentType =
                              IF first.MIMEType = "" THEN "image/png" ELSE first.MIMEType
                /\ FieldMissing(prompt) => (w[r].status = 400 /\ calls[r] = <<>>)

C5_Witness ==
    \E r \in Ids :
        /\ Done(r)
        /\ IsPost(r)
        /\ request[r].path = "/text-to-image"
        /\ request[r].body.fields.prompt = JStr("y")
        /\ Len(ImagesReturned(stream[r])) = 2
        /\ w[r].status = 200

\* C6: when the upstream completes without error and without any image, the
\* request that called it is answered 500 with a JSON error body whose "error"
\* is a non-empty string; no 200 and no image bytes are written.
C6_NoImageIs500 ==
    \A r \in Ids :
        (Done(r) /\ calls[r] # <<>> /\ ReturnsNothing(stream[r])) =>
            /\ w[r].status = 500
            /\ IsErrorResponse(w[r])
            /\ w[r].body[1].error # ""
            /\ ~HasImageBytes(w[r])

C6_Witness ==
    \E r \in Ids :
        /\ Done(r)
        /\ request[r].path = "/magic-eraser"
        /\ calls[r] # <<>>
        /\ Len(stream[r]) = 2
        /\ ReturnsNothing(stream[r])
        /\ w[r].status = 500

\* C8: a request that passes validation invokes the upstream exactly once over
\* its whole lifetime, whatever the upstream answers; a request that fails
\* validation or the method check never invokes it.
C8_OneUpstreamCall ==
    \A r \in Ids :
        /\ Len(calls[r]) <= 1
        /\ pc[r] = "streaming" => Len(calls[r]) = 1
        /\ (Done(r) /\ w[r].status \in {200, 500}) => Len(calls[r]) = 1
        /\ (Done(r) /\ w[r].status \in {400, 405}) => Len(calls[r]) = 0
        /\ (Done(r) /\ IsPost(r) /\ WellFormed(request[r])) => Len(calls[r]) = 1

C8_Witness ==
    \E r \in Ids :
        /\ Done(r)
        /\ Len(calls[r]) = 1
        /\ pos[r] = 2
        /\ stream[r][2].err # ""
        /\ w[r].status = 500

\* C9: nothing of the response is written while the upstream result is not
\* known, and when the upstream call fails, with an error at any point of the
\* stream or with no image, the response is never 200 and holds no image bytes.
C9_NoPartialResponse ==
    \A r \in Ids :
        /\ pc[r] = "streaming" => w[r] = NewResponseWriter
        /\ (Done(r) /\ calls[r] # <<>> /\ UpstreamFailed(stream[r])) =>
               (w[r].status # 200 /\ ~HasImageBytes(w[r]))

C9_Witness ==
    \E r \in Ids :
        /\ Done(r)
        /\ calls[r] # <<>>
        /\ pos[r] = 2
        /\ stream[r][1].err = ""
        /\ stream[r][2].err # ""
        /\ w[r].status = 500

\* ------------------------------------------------- two requests side by side

\* Two requests, served concurrently, drawn from a few bodies of each shape
\* and a few upstream answers: what it takes to compare two runs.
PairImages == {<<"A", "A", "A", "A">>, <<"A", "A", "=", "=">>, <<"A", "*">>}

PairFields ==
    {Fields(JStr("x"), Absent, Absent, Absent)}
        \cup {Fields(Absent, JStr(i), s, Absent) : i \in PairImages, s \in {JInt(2), JInt(4)}}
        \cup {Fields(Absent, JStr(i), Absent, JStr(d)) : i \in PairImages, d \in {"x", "y"}}
        \cup {Fields(Absent, JStr(i), Absent, Absent) : i \in PairImages}

PairRequests ==
    [path : Paths, method : {"POST"},
     body : {[kind |-> "object", fields |-> f, trailing |-> FALSE] : f \in PairFields}]

PairStreams ==
    {<<>>,
     <<ErrItem("upstream unavailable")>>,
     <<ErrItem("quota exceeded")>>,
     <<Chunk(<<Candidate(<<TextPart>>)>>), ErrItem("quota exceeded")>>,
     <<Chunk(<<Candidate(<<InlinePart("", "img1")>>)>>)>>}

InitPair == InitFor({1, 2})

NextPair ==
    \/ \E r \in DOMAIN pc :
        pc[r] = "idle" /\ \E q \in RequestsTo(PairRequests, "/text-to-image") :
            handleTextToImage(r, q, PairStreams)
    \/ \E r \in DOMAIN pc :
        pc[r] = "idle" /\ \E q \in RequestsTo(PairRequests, "/resize") :
            handleResize(r, q, PairStreams)
    \/ \E r \in DOMAIN pc :
        pc[r] = "idle" /\ \E q \in RequestsTo(PairRequests, "/sketch-to-image") :
            handleSketchToImage(r, q, PairStreams)
    \/ \E r \in DOMAIN pc :
        pc[r] = "idle" /\ \E q \in RequestsTo(PairRequests, "/magic-eraser") :
            handleMagicEraser(r, q, PairStreams)
    \/ \E r \in DOMAIN pc : generateSingleImageIter(r)
    \/ \E r \in DOMAIN pc : generateSingleImageExhausted(r)

SpecPair == InitPair /\ [][NextPair]_vars

\* C7: when the upstream call fails, the 500 response carries a generic
\* message: two requests that are the same, to the same endpoint, whose
\* upstream calls fail get the same response body whatever the upstream errors
\* were.
C7_GenericErrorBody ==
    \A r1, r2 \in Ids :
        (/\ Done(r1) /\ Done(r2)
         /\ request[r1] = request[r2]
         /\ w[r1].status = 500 /\ w[r2].status = 500) =>
            w[r1].body = w[r2].body

\* What reaches the upstream in a call, the context apart.
CallContent(call) == [model |-> call.model, contents |-> call.contents, config |-> call.config]

SameButImage(q1, q2) ==
    /\ q1.path = q2.path
    /\ q1.method = q2.method
    /\ q1.body.kind = q2.body.kind
    /\ q1.body.trailing = q2.body.trailing
    /\ [q1.body.fields EXCEPT !.image_base64 = Absent] =
           [q2.body.fields EXCEPT !.image_base64 = Absent]

\* C10: on /resize, /sketch-to-image and /magic-eraser the image is validated
\* but not transmitted: two valid requests to the same endpoint that differ
\* only in image_base64 make identical upstream calls, each of one text part.
C10_ImageNotTransmitted ==
    \A r1, r2 \in Ids :
        (/\ request[r1].path \in ImagePaths
         /\ SameButImage(request[r1], request[r2])
         /\ calls[r1] # <<>> /\ calls[r2] # <<>>) =>
            /\ CallContent(calls[r1][1]) = CallContent(calls[r2][1])
            /\ Len(calls[r1][1].contents) = 1
            /\ Len(calls[r1][1].contents[1].Parts) = 1

C10_Witness ==
    /\ request[1].path = "/resize"
    /\ request[2].path = "/resize"
    /\ request[1].body.fields.scale = request[2].body.fields.scale
    /\ request[1].body.fields.image_base64 # request[2].body.fields.image_base64
    /\ calls[1] # <<>>
    /\ calls[2] # <<>>

\* C13 as stated: every 200 response has Content-Type "image/png", whatever
\* MIME type the upstream declares for the image.
C13_AlwaysPNG ==
    \A r \in Ids : (Done(r) /\ w[r].status = 200) => w[r].contentType = "image/png"

\* C13, amended: every 200 response has the MIME type the upstream declared for
\* the image as its Content-Type, and "image/png" when the upstream declared
\* none.
C13_ContentTypeIsDeclared ==
    \A r \in Ids :
        (Done(r) /\ w[r].status = 200) =>
            /\ ReturnsImage(stream[r])
            /\ w[r].contentType =
                   IF FirstImage(stream[r]).MIMEType = "" THEN "image/png"
                   ELSE FirstImage(stream[r]).MIMEType

C13_Witness ==
    \E r \in Ids :
        /\ Done(r)
        /\ request[r].path = "/resize"
        /\ w[r].status = 200
        /\ w[r].contentType = "image/jpeg"

\* An item that ends the loop of generateSingleImage: an error, or a chunk
\* with an inline-data part.
HasInline(item) == \E i \in 1..Len(CandidateParts(item.Candidates)) :
                       CandidateParts(item.Candidates)[i].inline
Decisive(item) == item.err # "" \/ HasInline(item)
FirstInline(item) ==
    LET parts == CandidateParts(item.Candidates)
    IN  parts[CHOOSE i \in 1..Len(parts) :
                  parts[i].inline /\ \A k \in 1..(i - 1) : ~parts[k].inline]

\* C14: generateSingleImage reads the stream in order and stops at the first
\* inline-image payload: chunks without candidates, content or parts are
\* skipped, no item after the payload is consumed, an error item reached first
\* is returned with no image, and a stream that ends without a payload gives
\* the error "no image returned".
C14_LazyFirstImage ==
    \A r \in Ids :
        /\ pos[r] <= Len(stream[r])
        /\ \A i \in 1..pos[r] : Decisive(stream[r][i]) => (i = pos[r] /\ Done(r))
        /\ (Done(r) /\ calls[r] # <<>>) =>
               IF pos[r] > 0 /\ Decisive(stream[r][pos[r]])
               THEN LET last == stream[r][pos[r]]
                    IN  IF last.err # ""
                        THEN /\ logs[r] = <<LogPrefix(request[r].path) \o last.err>>
                             /\ w[r].status = 500
                             /\ ~HasImageBytes(w[r])
                        ELSE /\ logs[r] = <<>>
                             /\ w[r].status = 200
                             /\ w[r].body = <<BytesPayload(FirstInline(last).Data)>>
               ELSE /\ pos[r] = Len(stream[r])
                    /\ logs[r] = <<LogPrefix(request[r].path) \o "no image returned">>
                    /\ w[r].status = 500

C14_Witness ==
    \E r \in Ids :
        /\ Done(r)
        /\ Len(stream[r]) = 2
        /\ pos[r] = 1
        /\ HasInline(stream[r][1])
        /\ Decisive(stream[r][2])
        /\ w[r].status = 200

-----------------------------------------------------------------------------
\* The server from process start, with two requests in flight at once.

InitServer ==
    /\ server = "starting"
    /\ aiClient = "nil"
    /\ NoRequestYet({1, 2})

NextServer ==
    \/ \E apiKey \in EnvKeys, clientErr \in BOOLEAN, listenErr \in BOOLEAN :
        main(apiKey, clientErr, listenErr)
    \/ NextPair

SpecServer == InitServer /\ [][NextServer]_vars

\* generateSingleImage run to completion on its own over the answer s,
\* starting at item i.
RECURSIVE generateSingleImageAlone(_, _)
generateSingleImageAlone(s, i) ==
    IF i > Len(s) THEN generateSingleImageEnd
    ELSE LET result == generateSingleImageItem(s[i])
         IN  IF result.returns THEN result ELSE generateSingleImageAlone(s, i + 1)

HandlerStart(q) ==
    CASE q.path = "/text-to-image" -> handleTextToImageStart(NewResponseWriter, q)
      [] q.path = "/resize" -> handleResizeStart(NewResponseWriter, q)
      [] q.path = "/sketch-to-image" -> handleSketchToImageStart(NewResponseWriter, q)
      [] q.path = "/magic-eraser" -> handleMagicEraserStart(NewResponseWriter, q)

\* The response and log lines of request q when it is the only request the
\* server handles and the upstream answers its call with s.
AloneResponse(q, s) ==
    LET start == HandlerStart(q)
    IN  IF start.calls
        THEN HandlerFinish(start.w, q.path, generateSingleImageAlone(s, 1))
        ELSE [w |-> start.w, log |-> <<>>]

AloneCalls(r, q) ==
    LET start == HandlerStart(q)
    IN  IF start.calls THEN <<GenerateContentCall(RequestContext(r), start.prompt)>> ELSE <<>>

ClientAssignedBeforeListening ==
    /\ server = "listening" => aiClient = "client"
    /\ \A r \in Ids : pc[r] # "idle" => server = "listening"

SameAsAlone ==
    \A r \in Ids :
        /\ pc[r] # "idle" => calls[r] = AloneCalls(r, request[r])
        /\ Done(r) =>
            /\ w[r] = AloneResponse(request[r], stream[r]).w
            /\ logs[r] = AloneResponse(request[r], stream[r]).log

\* A step changes the client handle only while main() has not started
\* listening; afterwards it is read, never written.
ClientWrittenOnlyAtStartup == aiClient' # aiClient => server = "starting"

\* C11: handlers share no mutable state. The client handle is assigned only
\* during startup, no request is served before main() has assigned it and
\* started listening, and under every interleaving of two requests each one
\* makes the upstream call, and gets the response and log lines, it would get
\* when run alone on its own input and the upstream's answer to its own call.
C11_NoSharedState ==
    /\ [][ClientWrittenOnlyAtStartup]_vars
    /\ [](ClientAssignedBeforeListening /\ SameAsAlone)

\* Two requests to different endpoints overlap: the second arrives and is
\* answered while the first is still streaming, then the first fails.
C11_Witness ==
    /\ Done(1) /\ Done(2)
    /\ request[1].path # request[2].path
    /\ pos[1] = 2 /\ pos[2] = 1
    /\ w[1].status = 500 /\ w[2].status = 200

-----------------------------------------------------------------------------
\* The context of the upstream call. Every call a request makes carries that
\* request's own context, never the background context or another request's.
\* What the client library does with a cancelled context is outside the
\* program and is not modelled.
CallsCarryRequestContext ==
    \A r \in Ids : \A i \in DOMAIN calls[r] : calls[r][i].ctx = r

====
